---------------------------- MODULE Spec2Model ----------------------------
(***************************************************************************)
(* Contract extraction pipeline of knowledge-graph.py and the /ask         *)
(* endpoint of app.py.                                                     *)
(*                                                                         *)
(* Representation.  A Python string is a sequence of characters, each a    *)
(* one-character TLA+ string; text whose characters never matter to the    *)
(* code (a summary, a contract type, a file id) is written as a sequence   *)
(* of one multi-character chunk.  A JSON value is a record [t, v] with t   *)
(* its type and v a sequence.  A Python dict is a record over Keys whose   *)
(* missing keys hold Absent.                                               *)
(***************************************************************************)
EXTENDS Integers, Sequences, FiniteSets

----------------------------------------------------------------------------
(* Bounds of the model *)

\* longest model reply, in characters, that is enumerated exhaustively
MaxLen == 4
\* most contracts in one batch
MaxContracts == 3
\* largest concurrency limit tried besides the default
MaxWorkers == 2

VARIABLES
    pad_year,       \* whether this platform's strftime zero-pads %Y
    contracts,      \* the list handed to process_all
    max_workers,    \* the limit handed to process_all
    permits,        \* the semaphore's counter
    pc,             \* where main / process_all / process_contract stands
    i,              \* position of process_all's loop in contracts
    call,           \* what call_gemma did for the current contract
    outcome,        \* what process_contract's body did for it
    results,        \* process_all's results list
    calls,          \* history: model calls made so far, per contract
    responses,      \* history: the reply each result was built from
    results_json,   \* RESULTS_JSON on disk
    embeddings_pkl, \* EMBEDDINGS_PKL on disk
    ask_response    \* what the last POST /ask gave its caller

vars == <<pad_year, contracts, max_workers, permits, pc, i, call, outcome,
          results, calls, responses, results_json, embeddings_pkl,
          ask_response>>

----------------------------------------------------------------------------
(* Characters and numbers *)

Digits == <<"0", "1", "2", "3", "4", "5", "6", "7", "8", "9">>

IsDigit(c) == \E k \in 1..10 : Digits[k] = c

DigitVal(c) == (CHOOSE k \in 1..10 : Digits[k] = c) - 1

AllDigits(s) == \A k \in 1..Len(s) : IsDigit(s[k])

RECURSIVE NumVal(_)
NumVal(s) ==
    IF s = <<>> THEN 0
    ELSE NumVal(SubSeq(s, 1, Len(s) - 1)) * 10 + DigitVal(s[Len(s)])

RECURSIVE ToChars(_)
ToChars(n) ==
    IF n < 10 THEN <<Digits[n + 1]>>
    ELSE ToChars(n \div 10) \o <<Digits[(n % 10) + 1]>>

RECURSIVE ZeroPad(_, _)
ZeroPad(s, w) == IF Len(s) >= w THEN s ELSE ZeroPad(<<"0">> \o s, w)

----------------------------------------------------------------------------
(* JSON values and dicts *)

Absent == [t |-> "absent", v |-> <<>>]
JNull == [t |-> "null", v |-> <<>>]
JStr(s) == [t |-> "str", v |-> s]
JNum(n) == [t |-> "num", v |-> <<n>>]
JList(l) == [t |-> "list", v |-> l]

Keys == {"error", "raw", "file_id", "summary", "contract_type",
         "effective_date", "duration", "end_date", "clauses"}

EmptyDict == [k \in Keys |-> Absent]

\* key in d
Has(d, k) == d[k] # Absent

\* d.get(k): None for a missing key
Get(d, k) == IF Has(d, k) THEN d[k] ELSE JNull

\* Python truth value of a JSON value
Truthy(x) ==
    CASE x.t = "str" -> Len(x.v) > 0
      [] x.t = "num" -> x.v[1] # 0
      [] x.t = "list" -> Len(x.v) > 0
      [] OTHER -> FALSE

----------------------------------------------------------------------------
(* The proleptic Gregorian calendar of datetime *)

MINYEAR == 1
MAXYEAR == 9999

IsLeap(y) == y % 4 = 0 /\ (y % 100 # 0 \/ y % 400 = 0)

DaysInMonth(y, m) ==
    IF m = 2 THEN (IF IsLeap(y) THEN 29 ELSE 28)
    ELSE IF m \in {4, 6, 9, 11} THEN 30 ELSE 31

RECURSIVE DaysBeforeMonth(_, _)
DaysBeforeMonth(y, m) ==
    IF m = 1 THEN 0 ELSE DaysBeforeMonth(y, m - 1) + DaysInMonth(y, m - 1)

DaysBeforeYear(y) ==
    (y - 1) * 365 + ((y - 1) \div 4) - ((y - 1) \div 100) + ((y - 1) \div 400)

ymd2ord(y, m, d) == DaysBeforeYear(y) + DaysBeforeMonth(y, m) + d

MaxOrdinal == ymd2ord(MAXYEAR, 12, 31)

ord2ymd(o) ==
    LET di400 == DaysBeforeYear(401)
        di100 == DaysBeforeYear(101)
        di4 == DaysBeforeYear(5)
        n0 == o - 1
        n400 == n0 \div di400
        r400 == n0 % di400
        n100 == r400 \div di100
        r100 == r400 % di100
        n4 == r100 \div di4
        r4 == r100 % di4
        n1 == r4 \div 365
        n == r4 % 365
        year == n400 * 400 + 1 + n100 * 100 + n4 * 4 + n1
    IN  IF n1 = 4 \/ n100 = 4 THEN [y |-> year - 1, m |-> 12, d |-> 31]
        ELSE LET m0 == (n + 50) \div 32
                 month == IF DaysBeforeMonth(year, m0) > n THEN m0 - 1 ELSE m0
             IN  [y |-> year, m |-> month,
                  d |-> n - DaysBeforeMonth(year, month) + 1]

----------------------------------------------------------------------------
(* datetime.strptime(s, '%Y-%m-%d') and strftime("%Y-%m-%d") *)

NoDate == [ok |-> FALSE, y |-> 0, m |-> 0, d |-> 0]

\* %m: 1[0-2] | 0[1-9] | [1-9]
MonthField(s) ==
    /\ Len(s) \in 1..2
    /\ AllDigits(s)
    /\ NumVal(s) \in 1..12

\* %d: 3[01] | [12]\d | 0[1-9] | [1-9] | " "[1-9]
DayField(s) ==
    \/ /\ Len(s) \in 1..2
       /\ AllDigits(s)
       /\ NumVal(s) \in 1..31
    \/ /\ Len(s) = 2
       /\ s[1] = " "
       /\ IsDigit(s[2])
       /\ DigitVal(s[2]) >= 1

DayVal(s) == IF s[1] = " " THEN DigitVal(s[2]) ELSE NumVal(s)

\* the parsed date, or NoDate where strptime raises ValueError
strptime(s) ==
    IF ~(Len(s) \in 8..10 /\ AllDigits(SubSeq(s, 1, 4)) /\ s[5] = "-")
    THEN NoDate
    ELSE LET j == IF s[7] = "-" THEN 7 ELSE 8
             ms == SubSeq(s, 6, j - 1)
             ds == SubSeq(s, j + 1, Len(s))
         IN  IF s[j] # "-" \/ ~MonthField(ms) \/ ~DayField(ds) THEN NoDate
             ELSE LET y == NumVal(SubSeq(s, 1, 4))
                      m == NumVal(ms)
                      d == DayVal(ds)
                  IN  IF y < MINYEAR \/ d > DaysInMonth(y, m) THEN NoDate
                      ELSE [ok |-> TRUE, y |-> y, m |-> m, d |-> d]

\* %Y is the year in decimal: zero-padded to four digits where the C
\* library pads it, bare where it does not (glibc prints year 999 as "999")
strftime(date, padded) ==
    (IF padded THEN ZeroPad(ToChars(date.y), 4) ELSE ToChars(date.y))
        \o <<"-">> \o ZeroPad(ToChars(date.m), 2)
        \o <<"-">> \o ZeroPad(ToChars(date.d), 2)

is_valid_date(date_string) ==
    date_string.t = "str" /\ strptime(date_string.v).ok


----------------------------------------------------------------------------
(* isodate.parse_duration: [sign] P [nY][nM][nW][nD] [T [nH][nM][nS]].     *)
(* The numbers are whole: no duration of Durations has a fraction.         *)

DateOrder == <<"Y", "M", "W", "D">>
DateFields == <<"years", "months", "weeks", "days">>
TimeOrder == <<"H", "M", "S">>
TimeFields == <<"hours", "minutes", "seconds">>

NoFields == [ok |-> TRUE, years |-> 0, months |-> 0, weeks |-> 0, days |-> 0,
             hours |-> 0, minutes |-> 0, seconds |-> 0]

RECURSIVE DigitRun(_, _)
DigitRun(s, p) ==
    IF p > Len(s) \/ ~IsDigit(s[p]) THEN 0 ELSE 1 + DigitRun(s, p + 1)

\* the designated numbers of s from position p on; k is the first
\* designator still allowed
RECURSIVE ScanDuration(_, _, _, _, _)
ScanDuration(s, p, k, inTime, acc) ==
    IF p > Len(s) THEN acc
    ELSE IF s[p] = "T"
    THEN IF inTime THEN [acc EXCEPT !.ok = FALSE]
         ELSE ScanDuration(s, p + 1, 1, TRUE, acc)
    ELSE LET n == DigitRun(s, p)
             order == IF inTime THEN TimeOrder ELSE DateOrder
             fields == IF inTime THEN TimeFields ELSE DateFields
             hits == {q \in k..Len(order) :
                         p + n <= Len(s) /\ order[q] = s[p + n]}
         IN  IF n = 0 \/ hits = {} THEN [acc EXCEPT !.ok = FALSE]
             ELSE LET q == CHOOSE q \in hits : TRUE
                  IN  ScanDuration(s, p + n + 1, q + 1, inTime,
                          [acc EXCEPT ![fields[q]] =
                              NumVal(SubSeq(s, p, p + n - 1))])

NoDuration ==
    [ok |-> FALSE, years |-> 0, months |-> 0, days |-> 0, seconds |-> 0]

\* the duration, or NoDuration where parse_duration raises
parse_duration(x) ==
    IF x.t # "str" THEN NoDuration
    ELSE LET s == x.v
             signed == Len(s) >= 1 /\ s[1] \in {"+", "-"}
             p == IF signed THEN 2 ELSE 1
         IN  IF Len(s) <= p \/ s[p] # "P" THEN NoDuration
             ELSE LET r == ScanDuration(s, p + 1, 1, FALSE, NoFields)
                      sg == IF s[1] = "-" THEN -1 ELSE 1
                  IN  IF ~r.ok THEN NoDuration
                      ELSE [ok |-> TRUE,
                            years |-> sg * r.years,
                            months |-> sg * r.months,
                            days |-> sg * (r.weeks * 7 + r.days),
                            seconds |-> sg * (r.hours * 3600
                                              + r.minutes * 60 + r.seconds)]

Min(a, b) == IF a <= b THEN a ELSE b

Raised == [ok |-> FALSE, v |-> JNull]

\* date_obj + duration (isodate's Duration.__add__ for years and months,
\* then the timedelta), formatted; Raised where any step raises
add_duration_to_date(date_str, duration_str) ==
    LET date == IF date_str.t = "str" THEN strptime(date_str.v) ELSE NoDate
        dur == parse_duration(duration_str)
    IN  IF ~date.ok \/ ~dur.ok THEN Raised
        ELSE LET total == date.m + dur.months
                 carry == (total - 1) \div 12
                 newmonth == ((total - 1) % 12) + 1
                 newyear == date.y + dur.years + carry
             IN  IF newyear \notin MINYEAR..MAXYEAR THEN Raised
                 ELSE LET newday ==
                              Min(date.d, DaysInMonth(newyear, newmonth))
                          o == ymd2ord(newyear, newmonth, newday)
                                   + dur.days + (dur.seconds \div 86400)
                      IN  IF o \notin 1..MaxOrdinal THEN Raised
                          ELSE [ok |-> TRUE,
                                v |-> JStr(strftime(ord2ymd(o), pad_year))]

----------------------------------------------------------------------------
(* The model's reply.  A reply is a sequence of tokens: the characters     *)
(* "{" and "}", a character "x" of prose, and "m", the text of a           *)
(* well-formed list of JSON members (its nested values balanced), which    *)
(* carries the dict those members decode to.                               *)

Tok(c) == [c |-> c, d |-> EmptyDict]
LB == Tok("{")
RB == Tok("}")
X == Tok("x")
M(d) == [c |-> "m", d |-> d]

\* str.find / str.rfind: a 0-based position, or -1
find(s, ch) ==
    IF \E k \in 1..Len(s) : s[k].c = ch
    THEN (CHOOSE k \in 1..Len(s) :
              s[k].c = ch /\ \A j \in 1..(k - 1) : s[j].c # ch) - 1
    ELSE -1

rfind(s, ch) ==
    IF \E k \in 1..Len(s) : s[k].c = ch
    THEN (CHOOSE k \in 1..Len(s) :
              s[k].c = ch /\ \A j \in (k + 1)..Len(s) : s[j].c # ch) - 1
    ELSE -1

\* s[a:b] for 0 <= a and 0 <= b <= len(s)
Slice(s, a, b) == SubSeq(s, a + 1, b)

\* json.loads of a span: the dict, or ok = FALSE where it raises
json_loads(span) ==
    IF span = <<LB, RB>> THEN [ok |-> TRUE, v |-> EmptyDict]
    ELSE IF Len(span) = 3 /\ span[1] = LB /\ span[2].c = "m" /\ span[3] = RB
    THEN [ok |-> TRUE, v |-> span[2].d]
    ELSE [ok |-> FALSE, v |-> EmptyDict]

----------------------------------------------------------------------------
(* extract_contract_structured and process_contract, as functions of what  *)
(* call_gemma did: c.raised, or c.response                                  *)

Chunk(w) == JStr(<<w>>)

Raise == [raised |-> TRUE, v |-> EmptyDict]
Return(d) == [raised |-> FALSE, v |-> d]

\* as extract_contract_structured, with json.loads outside the try
extract_contract_structured_unguarded(c) ==
    IF c.raised THEN Raise
    ELSE LET response == c.response
             json_start == find(response, "{")
             json_end == rfind(response, "}") + 1
         IN  IF json_start # -1 /\ json_end # -1
             THEN LET parsed == json_loads(Slice(response, json_start, json_end))
                  IN  IF parsed.ok THEN Return(parsed.v) ELSE Raise
             ELSE Return([EmptyDict EXCEPT
                      !.error = Chunk("No JSON found in response"),
                      !.raw = JStr(response)])

extract_contract_structured(c) ==
    IF c.raised THEN Raise
    ELSE LET response == c.response
             json_start == find(response, "{")
             json_end == rfind(response, "}") + 1
         IN  IF json_start # -1 /\ json_end # -1
             THEN LET parsed == json_loads(Slice(response, json_start, json_end))
                  IN  IF parsed.ok THEN Return(parsed.v)
                      ELSE Return([EmptyDict EXCEPT
                               !.error = Chunk("Failed to parse JSON"),
                               !.raw = JStr(response)])
             ELSE Return([EmptyDict EXCEPT
                      !.error = Chunk("No JSON found in response"),
                      !.raw = JStr(response)])

CleanDate(d, k) ==
    IF Has(d, k)
    THEN [d EXCEPT ![k] = IF is_valid_date(d[k]) THEN d[k] ELSE JNull]
    ELSE d

\* as InferEndDate, with the "not" before the end_date test forgotten
InferEndDate_inverted(d) ==
    IF /\ Truthy(Get(d, "end_date"))
       /\ Truthy(Get(d, "effective_date"))
       /\ Truthy(Get(d, "duration"))
    THEN LET sum == add_duration_to_date(Get(d, "effective_date"),
                                         Get(d, "duration"))
         IN  IF sum.ok THEN [d EXCEPT !.end_date = sum.v] ELSE d
    ELSE d

\* as InferEndDate, without the end_date test
InferEndDate_overrides(d) ==
    IF /\ Truthy(Get(d, "effective_date"))
       /\ Truthy(Get(d, "duration"))
    THEN LET sum == add_duration_to_date(Get(d, "effective_date"),
                                         Get(d, "duration"))
         IN  IF sum.ok THEN [d EXCEPT !.end_date = sum.v] ELSE d
    ELSE d

InferEndDate(d) ==
    IF /\ ~Truthy(Get(d, "end_date"))
       /\ Truthy(Get(d, "effective_date"))
       /\ Truthy(Get(d, "duration"))
    THEN LET sum == add_duration_to_date(Get(d, "effective_date"),
                                         Get(d, "duration"))
         IN  IF sum.ok THEN [d EXCEPT !.end_date = sum.v] ELSE d
    ELSE d

\* the body of process_contract, inside "with semaphore"
process_contract(contract, c) ==
    LET extracted == extract_contract_structured(c)
    IN  IF extracted.raised THEN Raise
        ELSE LET structured_data ==
                     [extracted.v EXCEPT !.file_id = JStr(contract.file_id)]
             IN  Return(InferEndDate(
                     CleanDate(CleanDate(structured_data, "effective_date"),
                               "end_date")))

----------------------------------------------------------------------------
(* The schema's closed sets *)

CLAUSE_TYPES ==
    {Chunk("Renewal & Termination"), Chunk("Confidentiality & Non-Disclosure"),
     Chunk("Non-Compete & Exclusivity"), Chunk("Liability & Indemnification"),
     Chunk("Service-Level Agreements")}

CONTRACT_TYPES ==
    {Chunk("Affiliate Agreement"), Chunk("Development"), Chunk("Distributor"),
     Chunk("Endorsement"), Chunk("Franchise"), Chunk("Hosting"), Chunk("IP"),
     Chunk("Joint Venture"), Chunk("License Agreement"), Chunk("Maintenance"),
     Chunk("Manufacturing"), Chunk("Marketing"), Chunk("Non Compete/Solicit"),
     Chunk("Outsourcing"), Chunk("Promotion"), Chunk("Reseller"),
     Chunk("Service"), Chunk("Sponsorship"), Chunk("Strategic Alliance"),
     Chunk("Supply"), Chunk("Transportation")}

DefaultMaxWorkers == 5

----------------------------------------------------------------------------
(* The embedding model and retrieval *)

\* SentenceTransformer.encode of one text: a fixed vector per text
Embed(text) ==
    CASE text = Chunk("s1") -> <<1, 0>>
      [] text = Chunk("s2") -> <<0, 1>>
      [] text = Chunk("q1") -> <<2, 1>>
      [] text = Chunk("q2") -> <<0, 3>>
      [] OTHER -> <<1, 1>>

\* model.encode(texts)
Encode(texts) == [k \in 1..Len(texts) |-> Embed(texts[k])]

Dot(a, b) == a[1] * b[1] + a[2] * b[2]

\* cosine similarity as the fraction sign(a.b) (a.b)^2 / (|a|^2 |b|^2),
\* which orders pairs as the cosine does; 0 for a zero-norm vector
Similarity(a, b) ==
    IF Dot(a, a) = 0 \/ Dot(b, b) = 0 THEN [num |-> 0, den |-> 1]
    ELSE [num |-> (IF Dot(a, b) < 0 THEN -1 ELSE 1) * Dot(a, b) * Dot(a, b),
          den |-> Dot(a, a) * Dot(b, b)]

Greater(x, y) == x.num * y.den > y.num * x.den

NoScore == [num |-> 0, den |-> 1]

\* the earliest candidate of maximal similarity; EmptyIndex for none
best_match(queryVector, candidates) ==
    IF Len(candidates) = 0
    THEN [ok |-> FALSE, error |-> "EmptyIndex", idx |-> 0, score |-> NoScore]
    ELSE LET sim(k) == Similarity(queryVector, candidates[k])
             idx == CHOOSE k \in 1..Len(candidates) :
                        /\ \A j \in 1..Len(candidates) : ~Greater(sim(j), sim(k))
                        /\ \A j \in 1..(k - 1) : Greater(sim(k), sim(j))
         IN  [ok |-> TRUE, error |-> "", idx |-> idx, score |-> sim(idx)]

find_most_relevant_contract(query, records, embeddings) ==
    LET best == best_match(Embed(query), embeddings)
    IN  IF best.ok
        THEN [ok |-> TRUE, error |-> "", contract |-> records[best.idx],
              score |-> best.score]
        ELSE [ok |-> FALSE, error |-> best.error, contract |-> EmptyDict,
              score |-> NoScore]

----------------------------------------------------------------------------
(* Inputs *)

FileIds == {<<"A">>, <<"B">>, <<"C">>, <<"D">>}

Contract(id) == [file_id |-> id, text |-> <<"text of">> \o id]

\* what read_txt_files returns: one contract per .txt file of the folder
ContractLists ==
    {l \in UNION {[1..n -> {Contract(id) : id \in FileIds}] : n \in 0..MaxContracts} :
        \A j, k \in 1..Len(l) : j # k => l[j] # l[k]}

\* the limits Semaphore accepts (a negative one is a ValueError before any
\* contract is touched)
WorkerLimits == (0..MaxWorkers) \cup {DefaultMaxWorkers}

Ymd(y, m, d) == JStr(y \o <<"-">> \o m \o <<"-">> \o d)

Y2020 == <<"2", "0", "2", "0">>

EffectiveDates ==
    {Absent, JNull, JNum(2020), JStr(<<>>), Chunk("01/31/2020"),
     Ymd(Y2020, <<"0", "1">>, <<"3", "1">>),
     Ymd(Y2020, <<"1">>, <<"5">>),
     Ymd(Y2020, <<"0", "2">>, <<"3", "0">>),
     Ymd(<<"9", "9", "9", "9">>, <<"1", "2">>, <<"3", "1">>),
     Ymd(<<"0", "9", "9", "9">>, <<"0", "1">>, <<"0", "1">>)}

EndDates ==
    {Absent, JNull, JNum(2021), JStr(<<>>), Chunk("06/30/2021"),
     Ymd(<<"2", "0", "2", "1">>, <<"0", "6">>, <<"3", "0">>),
     Ymd(<<"2", "0", "2", "1">>, <<"1", "3">>, <<"0", "1">>)}

Durations ==
    {Absent, JNull, JNum(12), JNum(0), JStr(<<>>), Chunk("1 year"),
     JStr(<<"P">>), JStr(<<"P", "1", "X">>),
     JStr(<<"P", "1", "Y">>), JStr(<<"P", "1", "M">>),
     JStr(<<"P", "1", "Y", "6", "M">>), JStr(<<"P", "2", "W">>),
     JStr(<<"-", "P", "1", "D">>), JStr(<<"P", "T", "3", "6", "H">>)}

\* a summary, where the reply has one, is a string
Summaries == {Absent, Chunk("s1"), Chunk("s2")}

ContractTypes == {Absent, JNull, Chunk("Service"), Chunk("Lease")}

Clause(type) == [summary |-> Chunk("c"), clause_type |-> type]

ClauseLists ==
    {Absent, JNull, JList(<<>>),
     JList(<<Clause(Chunk("Renewal & Termination"))>>),
     JList(<<Clause(Chunk("Renewal & Termination")), Clause(Chunk("Payment"))>>)}

GoodMembers ==
    [EmptyDict EXCEPT !.summary = Chunk("s1"),
                      !.contract_type = Chunk("Service"),
                      !.effective_date = Ymd(Y2020, <<"0", "1">>, <<"3", "1">>),
                      !.duration = JStr(<<"P", "1", "Y">>)]

NoSummaryMembers ==
    [EmptyDict EXCEPT !.contract_type = Chunk("Hosting")]

OffSchemaMembers ==
    [EmptyDict EXCEPT !.summary = Chunk("s2"),
                      !.contract_type = Chunk("Lease"),
                      !.clauses = JList(<<Clause(Chunk("Payment"))>>)]

DateMembers ==
    {[GoodMembers EXCEPT !.effective_date = e, !.end_date = n, !.duration = u] :
        e \in EffectiveDates, n \in EndDates, u \in Durations}

SchemaMembers ==
    {[EmptyDict EXCEPT !.summary = su, !.contract_type = ct, !.clauses = cl] :
        su \in Summaries, ct \in ContractTypes, cl \in ClauseLists}

\* every reply of at most MaxLen tokens around one members text
ShortReplies ==
    UNION {[1..n -> {LB, RB, X, M(GoodMembers)}] : n \in 0..MaxLen}

\* the replies tried on one contract
RecordReplies ==
    ShortReplies \cup {<<LB, M(d), RB>> : d \in DateMembers \cup SchemaMembers}

\* the replies tried on each contract of a batch: prose, a record within
\* the schema, a record outside it wrapped in prose, a record without a
\* summary, a truncated object
BatchReplies ==
    {<<X>>, <<LB, M(GoodMembers), RB>>, <<X, LB, M(OffSchemaMembers), RB, X>>,
     <<LB, M(NoSummaryMembers), RB>>, <<LB, M(GoodMembers)>>}

Queries == {Chunk("q1"), Chunk("q2")}

----------------------------------------------------------------------------
(* State *)

NoCall == [raised |-> FALSE, response |-> <<>>]
NoFile == [written |-> FALSE, data |-> <<>>]
NoResponse ==
    [kind |-> "none", error |-> "", contract |-> EmptyDict, score |-> NoScore]

InitWith(lists, limits) ==
    /\ pad_year \in BOOLEAN
    /\ contracts \in lists
    /\ max_workers \in limits
    /\ permits = max_workers
    /\ pc = "loop"
    /\ i = 1
    /\ call = NoCall
    /\ outcome = Return(EmptyDict)
    /\ results = <<>>
    /\ calls = [k \in 1..Len(contracts) |-> 0]
    /\ responses = <<>>
    /\ results_json = NoFile
    /\ embeddings_pkl = NoFile
    /\ ask_response = NoResponse

Init == InitWith(ContractLists, WorkerLimits)

InitRecord == InitWith({<<Contract(<<"A">>)>>}, {DefaultMaxWorkers})

----------------------------------------------------------------------------
(* process_all, one contract at a time *)

\* "with semaphore": acquire blocks while no permit is left
Acquire ==
    /\ pc = "loop"
    /\ i <= Len(contracts)
    /\ permits > 0
    /\ permits' = permits - 1
    /\ pc' = "in_flight"
    /\ UNCHANGED <<pad_year, contracts, max_workers, i, call, outcome, results,
                   calls, responses, results_json, embeddings_pkl, ask_response>>

\* requests.post answers with a success status and the reply streams in
call_gemma(reply) ==
    /\ pc = "in_flight"
    /\ call' = [raised |-> FALSE, response |-> reply]
    /\ calls' = [calls EXCEPT ![i] = @ + 1]
    /\ responses' = Append(responses, call')
    /\ pc' = "called"
    /\ UNCHANGED <<pad_year, contracts, max_workers, permits, i, outcome,
                   results, results_json, embeddings_pkl, ask_response>>

\* response.ok is false: RuntimeError
call_gemma_raises ==
    /\ pc = "in_flight"
    /\ call' = [raised |-> TRUE, response |-> <<>>]
    /\ calls' = [calls EXCEPT ![i] = @ + 1]
    /\ responses' = Append(responses, call')
    /\ pc' = "called"
    /\ UNCHANGED <<pad_year, contracts, max_workers, permits, i, outcome,
                   results, results_json, embeddings_pkl, ask_response>>

\* the rest of extract_contract_structured and of process_contract's body
ProcessContract ==
    /\ pc = "called"
    /\ outcome' = process_contract(contracts[i], call)
    /\ pc' = "leaving"
    /\ UNCHANGED <<pad_year, contracts, max_workers, permits, i, call, results,
                   calls, responses, results_json, embeddings_pkl, ask_response>>

\* as Release, with the release after the body instead of in a with-block:
\* an exception skips it
Release_skipped_by_exception ==
    /\ pc = "leaving"
    /\ IF outcome.raised
       THEN /\ pc' = "raised"
            /\ UNCHANGED <<results, i, permits>>
       ELSE /\ permits' = permits + 1
            /\ results' = Append(results, outcome.v)
            /\ i' = i + 1
            /\ pc' = "loop"
    /\ UNCHANGED <<pad_year, contracts, max_workers, call, outcome, calls,
                   responses, results_json, embeddings_pkl, ask_response>>

\* the with-block is left, by return or by exception: the permit goes
\* back; a returned record is appended, an exception leaves process_all
Release ==
    /\ pc = "leaving"
    /\ permits' = permits + 1
    /\ IF outcome.raised
       THEN /\ pc' = "raised"
            /\ UNCHANGED <<results, i>>
       ELSE /\ results' = Append(results, outcome.v)
            /\ i' = i + 1
            /\ pc' = "loop"
    /\ UNCHANGED <<pad_year, contracts, max_workers, call, outcome, calls,
                   responses, results_json, embeddings_pkl, ask_response>>

process_all_returns ==
    /\ pc = "loop"
    /\ i > Len(contracts)
    /\ pc' = "returned"
    /\ UNCHANGED <<pad_year, contracts, max_workers, permits, i, call, outcome,
                   results, calls, responses, results_json, embeddings_pkl,
                   ask_response>>

----------------------------------------------------------------------------
(* main after process_all, and the serving process *)

SummariesOf(records) ==
    LET withSummary == SelectSeq(records, LAMBDA el : Has(el, "summary"))
    IN  [k \in 1..Len(withSummary) |-> withSummary[k].summary]

\* main calls process_all with the default limit, then writes both files
main ==
    /\ pc = "returned"
    /\ max_workers = DefaultMaxWorkers
    /\ results_json' = [written |-> TRUE, data |-> results]
    /\ embeddings_pkl' = [written |-> TRUE, data |-> Encode(SummariesOf(results))]
    /\ pc' = "persisted"
    /\ UNCHANGED <<pad_year, contracts, max_workers, permits, i, call, outcome,
                   results, calls, responses, ask_response>>

\* as AskResponse, with a failed retrieval answered like a match
AskResponse_null_match(query, gemma_ok) ==
    LET found == find_most_relevant_contract(query, results_json.data,
                                             embeddings_pkl.data)
    IN  IF ~gemma_ok
        THEN [kind |-> "error", error |-> "RuntimeError",
              contract |-> EmptyDict, score |-> NoScore]
        ELSE [kind |-> "ok", error |-> "", contract |-> found.contract,
              score |-> found.score]

\* POST /ask over the files loaded at startup; gemma_ok is whether the
\* answering model call succeeds
AskResponse(query, gemma_ok) ==
    LET found == find_most_relevant_contract(query, results_json.data,
                                             embeddings_pkl.data)
    IN  IF ~found.ok
        THEN [kind |-> "error", error |-> found.error,
              contract |-> EmptyDict, score |-> NoScore]
        ELSE IF ~gemma_ok
        THEN [kind |-> "error", error |-> "RuntimeError",
              contract |-> EmptyDict, score |-> NoScore]
        ELSE [kind |-> "ok", error |-> "", contract |-> found.contract,
              score |-> found.score]

ask(query, gemma_ok) ==
    /\ pc \in {"persisted", "serving"}
    /\ ask_response' = AskResponse(query, gemma_ok)
    /\ pc' = "serving"
    /\ UNCHANGED <<pad_year, contracts, max_workers, permits, i, call, outcome,
                   results, calls, responses, results_json, embeddings_pkl>>

----------------------------------------------------------------------------
(* Specifications *)

Next ==
    \/ Acquire
    \/ \E reply \in BatchReplies : call_gemma(reply)
    \/ call_gemma_raises
    \/ ProcessContract
    \/ Release
    \/ process_all_returns
    \/ main
    \/ \E query \in Queries, gemma_ok \in BOOLEAN : ask(query, gemma_ok)

\* a batch of up to MaxContracts contracts, persisted and served
Spec == Init /\ [][Next]_vars

NextRecord ==
    \/ Acquire
    \/ \E reply \in RecordReplies : call_gemma(reply)
    \/ call_gemma_raises
    \/ ProcessContract
    \/ Release
    \/ process_all_returns

\* one contract, over every reply of RecordReplies
SpecRecord == InitRecord /\ [][NextRecord]_vars

----------------------------------------------------------------------------
(* What the claims speak of *)

Finished == pc \in {"returned", "raised", "persisted", "serving"}

HasTok(r, ch) == \E k \in 1..Len(r) : r[k].c = ch

\* the text from the first "{" to the last "}" of a reply that has both
Span(r) ==
    SubSeq(r, CHOOSE k \in 1..Len(r) :
                  r[k].c = "{" /\ \A j \in 1..(k - 1) : r[j].c # "{",
              CHOOSE k \in 1..Len(r) :
                  r[k].c = "}" /\ \A j \in (k + 1)..Len(r) : r[j].c # "}")

\* the JSON object a reply holds, if it holds one
ObjectOf(r) ==
    IF HasTok(r, "{") /\ HasTok(r, "}") THEN json_loads(Span(r))
    ELSE [ok |-> FALSE, v |-> EmptyDict]

\* the reply result k was built from
ReplyOf(k) == responses[k].response

\* a value that is missing or None
IsAbsent(x) == x \in {Absent, JNull}

Structured(el) == ~Has(el, "error")

ClauseTypesOk(el) ==
    el.clauses.t = "list" =>
        \A k \in 1..Len(el.clauses.v) : el.clauses.v[k].clause_type \in CLAUSE_TYPES

Date20200131 == Ymd(Y2020, <<"0", "1">>, <<"3", "1">>)

----------------------------------------------------------------------------
(* Claims *)

\* C1: once process_all is over, it has returned one result per contract,
\* in input order; the result of a contract whose model call failed
\* carries an error, and every other result is what process_contract
\* makes of that contract's reply.
C1_FailureIsolation ==
    Finished =>
        /\ pc # "raised"
        /\ Len(results) = Len(contracts)
        /\ \A k \in 1..Len(results) :
              IF responses[k].raised THEN Has(results[k], "error")
              ELSE results[k] = process_contract(contracts[k], responses[k]).v

\* C2: once process_all is over, every contract's extraction has run
\* exactly once (one model call each), and results has one record per
\* contract, record k carrying contract k's file_id.
C2_OrderExactlyOnce ==
    Finished =>
        /\ \A k \in 1..Len(contracts) : calls[k] = 1
        /\ Len(results) = Len(contracts)
        /\ \A k \in 1..Len(results) :
              results[k].file_id = JStr(contracts[k].file_id)

\* the contracts inside the with-block of process_contract
InFlight ==
    {k \in 1..Len(contracts) : k = i /\ pc \in {"in_flight", "called", "leaving"}}

\* C3: at most max_workers extractions are in flight, and the permits
\* taken are exactly those of the extractions in flight: a contract that
\* has finished, by return or by exception, holds none.
C3_BoundedConcurrency ==
    /\ Cardinality(InFlight) <= max_workers
    /\ permits = max_workers - Cardinality(InFlight)

\* C3 witness: a contract finished by an exception after another finished
\* by return, and every permit is back.
C3_Witness ==
    /\ pc = "raised"
    /\ Len(results) >= 1
    /\ max_workers >= 1
    /\ permits = max_workers

\* C4: a reply that holds no JSON object (no "{", no "}", the last "}"
\* before the first "{", or a span that is not JSON) never makes
\* process_contract raise, and yields a record with an error, the reply
\* unchanged under raw, and the contract's file_id.
C4_ParseFailureIsValue ==
    /\ pc = "raised" => call.raised
    /\ (pc = "leaving" /\ ~call.raised) => ~outcome.raised
    /\ \A k \in 1..Len(results) :
          ~ObjectOf(ReplyOf(k)).ok =>
              /\ Has(results[k], "error")
              /\ results[k].error.t = "str"
              /\ results[k].raw = JStr(ReplyOf(k))
              /\ results[k].file_id = JStr(contracts[k].file_id)

\* C4 witness: a reply with "{" and "}" whose span is not JSON has been
\* turned into a returned error record.
C4_Witness ==
    /\ pc = "returned"
    /\ Len(results) = 1
    /\ HasTok(ReplyOf(1), "{") /\ HasTok(ReplyOf(1), "}")
    /\ ~ObjectOf(ReplyOf(1)).ok
    /\ Has(results[1], "error")

\* C5: in every record process_contract returned from a reply holding a
\* JSON object, effective_date and end_date are each missing, None, or a
\* string is_valid_date accepts.
C5_DatesValid ==
    \A k \in 1..Len(results) :
        ObjectOf(ReplyOf(k)).ok =>
            \A key \in {"effective_date", "end_date"} :
                IsAbsent(results[k][key]) \/ is_valid_date(results[k][key])

\* the replies C6 speaks of: an object with a valid effective_date and no
\* valid end_date
C6_Case(k) ==
    /\ ObjectOf(ReplyOf(k)).ok
    /\ is_valid_date(ObjectOf(ReplyOf(k)).v.effective_date)
    /\ ~is_valid_date(ObjectOf(ReplyOf(k)).v.end_date)

C6_Sum(k) ==
    add_duration_to_date(ObjectOf(ReplyOf(k)).v.effective_date,
                         ObjectOf(ReplyOf(k)).v.duration)

\* C6 as claimed: in that case, a parseable duration gives end_date =
\* effective_date + duration, and an unparsable one gives a record with
\* end_date absent and no error.
C6_AsClaimed ==
    \A k \in 1..Len(results) :
        C6_Case(k) =>
            IF parse_duration(ObjectOf(ReplyOf(k)).v.duration).ok
            THEN C6_Sum(k).ok /\ results[k].end_date = C6_Sum(k).v
            ELSE IsAbsent(results[k].end_date) /\ ~Has(results[k], "error")

\* C6 as amended: in that case, end_date is what add_duration_to_date
\* returns whenever it returns; when it raises (the duration is unparsable,
\* or the sum is no date of the years 1..9999) end_date is absent and no
\* error is recorded; and no reply makes process_contract raise.  The sums
\* of 2020-01-31 are spelled out.
C6_EndDateInferred ==
    /\ (pc = "leaving" /\ ~call.raised) => ~outcome.raised
    /\ \A k \in 1..Len(results) :
          C6_Case(k) =>
              /\ IF C6_Sum(k).ok THEN results[k].end_date = C6_Sum(k).v
                 ELSE IsAbsent(results[k].end_date) /\ ~Has(results[k], "error")
              /\ ~parse_duration(ObjectOf(ReplyOf(k)).v.duration).ok
                     => ~C6_Sum(k).ok
              /\ ObjectOf(ReplyOf(k)).v.effective_date = Date20200131 =>
                    /\ ObjectOf(ReplyOf(k)).v.duration = JStr(<<"P", "1", "Y">>)
                          => results[k].end_date =
                                 Ymd(<<"2", "0", "2", "1">>, <<"0", "1">>, <<"3", "1">>)
                    /\ ObjectOf(ReplyOf(k)).v.duration = JStr(<<"P", "1", "M">>)
                          => results[k].end_date =
                                 Ymd(Y2020, <<"0", "2">>, <<"2", "9">>)
                    /\ ObjectOf(ReplyOf(k)).v.duration
                           = JStr(<<"P", "1", "Y", "6", "M">>)
                          => results[k].end_date =
                                 Ymd(<<"2", "0", "2", "1">>, <<"0", "7">>, <<"3", "1">>)
                    /\ ObjectOf(ReplyOf(k)).v.duration = JStr(<<"P", "2", "W">>)
                          => results[k].end_date =
                                 Ymd(Y2020, <<"0", "2">>, <<"1", "4">>)

\* C6 witness: a reply with effective_date 2020-01-31, duration P1Y6M and
\* an end_date that is not a date has given a record ending 2021-07-31.
C6_Witness ==
    /\ pc = "returned"
    /\ Len(results) = 1
    /\ C6_Case(1)
    /\ Has(ObjectOf(ReplyOf(1)).v, "end_date")
    /\ ObjectOf(ReplyOf(1)).v.duration = JStr(<<"P", "1", "Y", "6", "M">>)
    /\ results[1].end_date = Ymd(<<"2", "0", "2", "1">>, <<"0", "7">>, <<"3", "1">>)

\* C7: every structured record among the results, and in RESULTS_JSON,
\* has its contract_type in CONTRACT_TYPES and each clause's clause_type
\* in CLAUSE_TYPES.
C7_SchemaInvariant ==
    /\ \A k \in 1..Len(results) :
          Structured(results[k]) =>
              results[k].contract_type \in CONTRACT_TYPES /\ ClauseTypesOk(results[k])
    /\ \A k \in 1..Len(results_json.data) :
          Structured(results_json.data[k]) =>
              /\ results_json.data[k].contract_type \in CONTRACT_TYPES
              /\ ClauseTypesOk(results_json.data[k])

C9_IndexParallel ==
    embeddings_pkl.written =>
        /\ Len(embeddings_pkl.data) =
               Cardinality({k \in 1..Len(results_json.data) :
                               Has(results_json.data[k], "summary")})
        /\ \A k \in 1..Len(embeddings_pkl.data) :
              /\ Has(results_json.data[k], "summary")
              /\ embeddings_pkl.data[k] = Embed(results_json.data[k].summary)

\* where C10 lets end_date be inferred: the reply's end_date is no valid
\* date, its effective_date is one, and it has a duration
C10_MayInfer(d) ==
    /\ ~is_valid_date(d.end_date)
    /\ is_valid_date(d.effective_date)
    /\ ~IsAbsent(d.duration)

\* C10: outside that case the record's end_date is the reply's own
\* end_date if that is a valid date and absent (missing or None)
\* otherwise; so a valid end_date is never replaced, and an effective_date
\* that is no valid date is never the base of an end_date.
C10_NoOverride ==
    \A k \in 1..Len(results) :
        (ObjectOf(ReplyOf(k)).ok /\ ~C10_MayInfer(ObjectOf(ReplyOf(k)).v)) =>
            IF is_valid_date(ObjectOf(ReplyOf(k)).v.end_date)
            THEN results[k].end_date = ObjectOf(ReplyOf(k)).v.end_date
            ELSE IsAbsent(results[k].end_date)

\* C10 witness: a reply with a valid end_date, a valid effective_date and
\* a parseable duration has given a record that keeps the reply's end_date.
C10_Witness ==
    /\ pc = "returned"
    /\ Len(results) = 1
    /\ ObjectOf(ReplyOf(1)).ok
    /\ is_valid_date(ObjectOf(ReplyOf(1)).v.end_date)
    /\ is_valid_date(ObjectOf(ReplyOf(1)).v.effective_date)
    /\ parse_duration(ObjectOf(ReplyOf(1)).v.duration).ok
    /\ results[1].end_date = ObjectOf(ReplyOf(1)).v.end_date

=============================================================================
